---- MODULE Spec2Model ----
(***************************************************************************)
(* Model of the 26AS converter's browser client (static/js/script.js):     *)
(* the module-level state (selectedFile, extractedData, pdfDocument,       *)
(* currentPage, totalPages, userData), the properties of the DOM elements  *)
(* the handlers write, the asynchronous calls in flight (loadPDF,          *)
(* renderPDFPage, the /upload and /download_excel requests) and one action *)
(* per event handler or continuation.  A session is explored up to         *)
(* MaxEvents events.                                                       *)
(*                                                                         *)
(* The extraction service behind /upload (app.py) is a second machine,     *)
(* SpecExtract and SpecParse: one extraction run over one document, with   *)
(* the page extractions completing in any order and the table parser and   *)
(* normalizer applied in the final pass.                                   *)
(***************************************************************************)
EXTENDS Integers, Sequences, FiniteSets, TLC

\* ------------------------------------------------------------------ bounds
MaxUploads == 2      \* /upload requests in flight at once
MaxLoads == 2        \* loadPDF calls in flight at once
MaxRenders == 2      \* renderPDFPage calls in flight at once
MaxTime == 2         \* largest value Date.now() takes
MaxDownloads == 1    \* cap on userData.totalFilesProcessed
MaxEvents == 6       \* events (user actions, completions) of a session
MaxPages == 3        \* pages of a document given to the extraction service
MaxRows == 3         \* table rows of a document given to the table parser

\* ------------------------------------------------------- program constants
PreviewLimit == 50   \* rows of the default preview

\* --------------------------------------------------------------- JS values
\* A JSON value of a transaction cell.  text is its string content (String(v)
\* for a number); numeric/cents describe what parseFloat makes of it, in
\* hundredths.  A key that is absent from the object reads as Undefined.
Undefined == [tag |-> "undefined", text |-> "undefined", numeric |-> FALSE, cents |-> 0]
Null == [tag |-> "null", text |-> "null", numeric |-> FALSE, cents |-> 0]
Str(s) == [tag |-> "string", text |-> s, numeric |-> FALSE, cents |-> 0]
NumStr(s, c) == [tag |-> "string", text |-> s, numeric |-> TRUE, cents |-> c]
Num(s, c) == [tag |-> "number", text |-> s, numeric |-> TRUE, cents |-> c]

\* !v
Falsy(v) ==
    \/ v.tag \in {"undefined", "null"}
    \/ v.tag = "string" /\ v.text = ""
    \/ v.tag = "number" /\ v.cents = 0

\* v === 0
IsZero(v) == v.tag = "number" /\ v.cents = 0

\* a || b
OrElse(a, b) == IF Falsy(a) THEN b ELSE a

\* A JS number as the preview prints it: NaN, or a value in hundredths.
NaN == [nan |-> TRUE, cents |-> 0]
Number(c) == [nan |-> FALSE, cents |-> c]

\* parseFloat(v)
ParseFloat(v) == IF v.numeric THEN Number(v.cents) ELSE NaN

\* formatAmount(amt): the text of an amount cell
formatAmount(amt) ==
    IF Falsy(amt) /\ ~IsZero(amt) THEN Number(0) ELSE ParseFloat(amt)

\* parseFloat(transaction.rate || 0).toFixed(2)
formatRate(rate) == ParseFloat(OrElse(rate, Num("0", 0)))

\* `${transaction.status || 'F'}`
formatStatus(status) == OrElse(status, Str("F")).text

\* One <tr> of the preview table, as built by updateExcelPreview and
\* showAllTransactions (the two bodies are identical).
RenderRow(t) ==
    [sr_no |-> OrElse(t.sr_no, Str("")).text,
     status |-> formatStatus(t.status),
     amount_paid |-> formatAmount(t.amount_paid),
     tax_deducted |-> formatAmount(t.tax_deducted),
     tds_deposited |-> formatAmount(t.tds_deposited),
     net_amount |-> formatAmount(t.net_amount),
     rate |-> formatRate(t.rate)]

\* ------------------------------------------------------------------ inputs
\* Files the user can drop or choose: file name (stem, extension) and number
\* of pages of the document.
NoFile == [stem |-> "", ext |-> "", pages |-> 0]
Files ==
    {[stem |-> "a", ext |-> "pdf", pages |-> 3],
     [stem |-> "b", ext |-> "PDF", pages |-> 2],
     [stem |-> "d", ext |-> "txt", pages |-> 2]}

\* String.prototype.toLowerCase on the extensions in use
toLowerCase(s) == CASE s = "PDF" -> "pdf" [] s = "Pdf" -> "pdf" [] OTHER -> s

\* a test that accepts every name
IsPdfNameAny(file) == file.ext # ""

\* file.name.toLowerCase().endsWith('.pdf')
IsPdfName(file) == toLowerCase(file.ext) = "pdf"

\* Transactions as the server returns them.
GoodTxn(i) ==
    [sr_no |-> Num("n", i * 100), status |-> Str("F"),
     amount_paid |-> Num("1000.5", 100050), tax_deducted |-> Num("100", 10000),
     tds_deposited |-> Num("100", 10000), net_amount |-> Num("900.5", 90050),
     rate |-> Num("10", 1000)]
SparseTxn(i) ==
    [sr_no |-> Num("n", i * 100), status |-> Undefined,
     amount_paid |-> Undefined, tax_deducted |-> Null,
     tds_deposited |-> Str(""), net_amount |-> Num("0", 0),
     rate |-> Undefined]
RawTxn(i) ==
    [sr_no |-> Num("n", i * 100), status |-> Str("U"),
     amount_paid |-> Str("abc"), tax_deducted |-> NumStr("12.50", 1250),
     tds_deposited |-> Num("7", 700), net_amount |-> Num("7", 700),
     rate |-> Str("n/a")]

ShortList == <<GoodTxn(2), SparseTxn(1)>>
RawList == <<RawTxn(3), GoodTxn(1), GoodTxn(2)>>
LongList == [i \in 1..(PreviewLimit + 1) |-> GoodTxn(PreviewLimit + 2 - i)]

\* An assessee object: undefined, or an object with some properties.
NoAssessee == [tag |-> "undefined", props |-> <<>>]
Obj(props) == [tag |-> "object", props |-> props]

\* the literal of lines 4-10, 274-280 and 705-711
EmptyAssessee ==
    Obj([name |-> "", pan |-> "", financialYear |-> "", address |-> "",
         assessmentYear |-> ""])

ServerAssessee(n, p, fy) ==
    Obj([name |-> n, pan |-> p, financial_year |-> fy, address |-> "",
         assessment_year |-> ""])

\* o.k, with a missing property and an undefined object both read as ""
\* (every use in the code is `o.k || ...`, for which "" and undefined agree)
Prop(o, k) == IF o.tag = "object" /\ k \in DOMAIN o.props THEN o.props[k] ELSE ""

\* What a completed fetch('/upload') gives parsePDF.  kind: the fetch
\* rejected, the status was not OK, the body had success false, or the body
\* had success true; assessee_info is result.data.assessee_info, which is
\* undefined when the server sends the identity under the name `assessee`.
Failure(k) == [kind |-> k, assessee_info |-> NoAssessee, transactions |-> <<>>]
Success(a, txs) == [kind |-> "success", assessee_info |-> a, transactions |-> txs]
FailureKinds == {"rejected", "http_error", "failure"}
Responses ==
    {Failure(k) : k \in FailureKinds} \cup
    {Success(ServerAssessee("N", "P", "2023-24"), ShortList),
     Success(ServerAssessee("N", "P", "2023-24"), <<>>),
     Success(ServerAssessee("", "", ""), LongList),
     Success(NoAssessee, RawList)}

\* ------------------------------------------------------------------- state
VARIABLES
    selectedFile,    \* the File object, NoFile for null
    extractedData,   \* [assessee, transactions, processingStats]
    pdfDocument,     \* the file pdf.js has open, NoFile for null
    currentPage,
    totalPages,
    userData,        \* [totalFilesProcessed, todayFilesProcessed]
    dom,             \* the element properties the handlers write
    loads,           \* loadPDF calls awaiting pdf.js: sequence of files
    renders,         \* renderPDFPage calls in flight: [doc, page]
    uploads,         \* parsePDF calls awaiting /upload: [file, startTime]
    download,        \* the /download_excel request in flight, or NoDownload
    now,             \* Date.now()
    heldRun,         \* history: the upload whose response extractedData holds
    events,          \* history: number of events so far
    doc,             \* extraction run: the document, [valid, pages]
    phase,           \* extraction run: "idle", "pages" or "done"
    pending,         \* extraction run: pages whose extraction is running
    extracted,       \* extraction run: page results, in completion order
    warnings,        \* extraction run: PageExtractionWarning count
    outcome          \* extraction run: what extract returned, or NoResult

client == <<selectedFile, extractedData, pdfDocument, currentPage, totalPages,
            userData, dom, loads, renders, uploads, download, now, heldRun,
            events>>
service == <<doc, phase, pending, extracted, warnings, outcome>>
vars == <<client, service>>

NoRun == [file |-> NoFile, startTime |-> 0]
NoDownload == [sent |-> FALSE, keys |-> {}, assessee_info |-> NoAssessee,
               transactions |-> <<>>]

\* the literal of lines 3-17, 273-287 and 704-718
EmptyData ==
    [assessee |-> EmptyAssessee,
     transactions |-> <<>>,
     processingStats |-> [startTime |-> 0, endTime |-> 0, pageCount |-> 0]]

Min(a, b) == IF a < b THEN a ELSE b

\* showNotification(message, type)
Notify(d, type, message) ==
    [d EXCEPT !.notification = [type |-> type, message |-> message]]

\* updateExcelPreview() without the slice(0, 50)
updateExcelPreviewAll(d, data) ==
    LET n == Len(data.transactions) IN
    IF n = 0
    THEN [d EXCEPT !.excelPlaceholder = TRUE,
                   !.excelRows = <<>>,
                   !.showAllOffered = FALSE,
                   !.excelInfo = 0,
                   !.excelRowInfo = [all |-> FALSE, rows |-> 0]]
    ELSE [d EXCEPT !.excelPlaceholder = FALSE,
                   !.excelRows = [i \in 1..n |-> RenderRow(data.transactions[i])],
                   !.showAllOffered = (n > PreviewLimit),
                   !.excelInfo = n,
                   !.excelRowInfo = [all |-> FALSE, rows |-> Min(PreviewLimit, n)]]

\* updateExcelPreview(), applied to element properties d
updateExcelPreview(d, data) ==
    LET n == Len(data.transactions) IN
    IF n = 0
    THEN [d EXCEPT !.excelPlaceholder = TRUE,
                   !.excelRows = <<>>,
                   !.showAllOffered = FALSE,
                   !.excelInfo = 0,
                   !.excelRowInfo = [all |-> FALSE, rows |-> 0]]
    ELSE [d EXCEPT !.excelPlaceholder = FALSE,
                   !.excelRows = [i \in 1..Min(PreviewLimit, n) |->
                                     RenderRow(data.transactions[i])],
                   !.showAllOffered = (n > PreviewLimit),
                   !.excelInfo = n,
                   !.excelRowInfo = [all |-> FALSE, rows |-> Min(PreviewLimit, n)]]

\* updateAssesseeInfo(), applied to element properties d
updateAssesseeInfo(d, data) ==
    LET a == data.assessee
        fy == IF Prop(a, "financial_year") # "" THEN Prop(a, "financial_year")
              ELSE IF Prop(a, "financialYear") # "" THEN Prop(a, "financialYear")
              ELSE "Not Available"
        orNA(s) == IF s # "" THEN s ELSE "Not Available"
    IN  IF a.tag = "object" /\ (Prop(a, "name") # "" \/ Prop(a, "pan") # ""
                                \/ Prop(a, "financialYear") # ""
                                \/ Prop(a, "financial_year") # "")
        THEN [d EXCEPT !.assesseeVisible = TRUE,
                       !.assesseeName = orNA(Prop(a, "name")),
                       !.assesseePAN = orNA(Prop(a, "pan")),
                       !.assesseeFY = fy]
        ELSE d

\* The element properties of the page as served, which are those resetTool
\* restores.  The page's HTML is not among the sources: the navigation
\* buttons, inside the hidden pdfControls, are taken as disabled until a
\* render sets them.
InitDom ==
    [parseBtnDisabled |-> TRUE,
     downloadBtnDisabled |-> TRUE,
     confirmDownloadDisabled |-> FALSE,
     progressBarVisible |-> FALSE,
     reportModalVisible |-> FALSE,
     modalPageCount |-> 0,
     modalTransactionCount |-> 0,
     modalTime |-> 0,
     excelPlaceholder |-> TRUE,
     excelRows |-> <<>>,
     showAllOffered |-> FALSE,
     excelInfo |-> 0,
     excelRowInfo |-> [all |-> FALSE, rows |-> 0],
     summaryFileCount |-> 0,
     summaryTransactionCount |-> 0,
     counterVisible |-> FALSE,
     counterValue |-> 0,
     assesseeVisible |-> FALSE,
     assesseeName |-> "",
     assesseePAN |-> "",
     assesseeFY |-> "",
     pdfControlsVisible |-> FALSE,
     pdfInfo |-> NoFile,
     pageInfo |-> [page |-> 0, total |-> 0],
     prevPageDisabled |-> TRUE,
     nextPageDisabled |-> TRUE,
     activeTab |-> "pdf",
     notification |-> [type |-> "none", message |-> ""]]

ClientInit ==
    /\ selectedFile = NoFile
    /\ extractedData = EmptyData
    /\ pdfDocument = NoFile
    /\ currentPage = 1
    /\ totalPages = 0
    /\ userData = [totalFilesProcessed |-> 0, todayFilesProcessed |-> 0]
    /\ dom = InitDom
    /\ loads = <<>>
    /\ renders = <<>>
    /\ uploads = <<>>
    /\ download = NoDownload
    /\ now = 1
    /\ heldRun = NoRun
    /\ events = 0

\* no extraction run
NoDoc == [valid |-> FALSE, pages |-> <<>>]
NoResult == [kind |-> "none", transactions |-> <<>>,
             stats |-> [page_count |-> 0, page_warnings |-> 0,
                        summary_rows |-> 0, skipped_cells |-> 0]]
ServiceIdle ==
    /\ doc = NoDoc
    /\ phase = "idle"
    /\ pending = {}
    /\ extracted = <<>>
    /\ warnings = 0
    /\ outcome = NoResult

Init == ClientInit /\ ServiceIdle

\* the sequence s without its i-th element
Remove(s, i) == SubSeq(s, 1, i - 1) \o SubSeq(s, i + 1, Len(s))

\* ----------------------------------------------------------------- actions
\* One more event of the session, while the budget lasts; no handler of the
\* page touches the state of an extraction run.
Budget == events < MaxEvents /\ events' = events + 1 /\ UNCHANGED service

\* handleFile(file): a file is dropped on the upload area or chosen in the
\* file input.  loadPDF(file) runs up to its first await.
HandleFile(file) ==
    /\ Budget
    /\ IF ~IsPdfName(file)
       THEN /\ dom' = Notify(dom, "error", "Please select a PDF file.")
            /\ UNCHANGED <<selectedFile, extractedData, loads, heldRun>>
       ELSE /\ Len(loads) < MaxLoads
            /\ selectedFile' = file
            /\ extractedData' = EmptyData
            /\ heldRun' = NoRun
            /\ dom' = [dom EXCEPT !.summaryFileCount = 1,
                                  !.parseBtnDisabled = FALSE,
                                  !.activeTab = "pdf",
                                  !.pdfInfo = file]
            /\ loads' = Append(loads, file)
    /\ UNCHANGED <<pdfDocument, currentPage, totalPages, userData, renders,
                   uploads, download, now>>

\* loadPDF(file) after its awaits: pdf.js opened the document (opens), or
\* file.arrayBuffer() or getDocument threw.  renderPDFPage(1) runs up to its
\* first await.
LoadDone(i, opens) ==
    /\ Budget
    /\ i \in 1..Len(loads)
    /\ LET file == loads[i] IN
       IF opens
       THEN /\ Len(renders) < MaxRenders
            /\ pdfDocument' = file
            /\ totalPages' = file.pages
            /\ extractedData' =
                 [extractedData EXCEPT !.processingStats.pageCount = file.pages]
            /\ dom' = [dom EXCEPT !.pdfControlsVisible = TRUE]
            /\ currentPage' = 1
            /\ renders' = Append(renders, [doc |-> file, page |-> 1])
       ELSE /\ dom' = Notify(dom, "error", "Error loading PDF file.")
            /\ UNCHANGED <<pdfDocument, totalPages, extractedData, currentPage,
                           renders>>
    /\ loads' = Remove(loads, i)
    /\ UNCHANGED <<selectedFile, userData, uploads, download, now, heldRun>>

\* renderPDFPage after its awaits (getPage, then page.render): page label and
\* navigation buttons, or the catch when getPage threw.
RenderDone(i) ==
    /\ Budget
    /\ i \in 1..Len(renders)
    /\ IF renders[i].page \in 1..renders[i].doc.pages
       THEN dom' = [dom EXCEPT
                !.pageInfo = [page |-> renders[i].page, total |-> totalPages],
                !.prevPageDisabled = (renders[i].page <= 1),
                !.nextPageDisabled = (renders[i].page >= totalPages)]
       ELSE dom' = Notify(dom, "error", "Error rendering PDF page.")
    /\ renders' = Remove(renders, i)
    /\ UNCHANGED <<selectedFile, extractedData, pdfDocument, currentPage,
                   totalPages, userData, loads, uploads, download, now,
                   heldRun>>

\* click on prevPage
PrevPage ==
    /\ Budget
    /\ dom.pdfControlsVisible
    /\ ~dom.prevPageDisabled
    /\ IF currentPage > 1
       THEN /\ Len(renders) < MaxRenders
            /\ currentPage' = currentPage - 1
            /\ renders' = Append(renders, [doc |-> pdfDocument,
                                           page |-> currentPage - 1])
       ELSE UNCHANGED <<currentPage, renders>>
    /\ UNCHANGED <<selectedFile, extractedData, pdfDocument, totalPages,
                   userData, dom, loads, uploads, download, now, heldRun>>

\* click on nextPage, without the test of currentPage
NextPageUnguarded ==
    /\ Budget
    /\ dom.pdfControlsVisible
    /\ ~dom.nextPageDisabled
    /\ Len(renders) < MaxRenders
    /\ currentPage' = currentPage + 1
    /\ renders' = Append(renders, [doc |-> pdfDocument, page |-> currentPage + 1])
    /\ UNCHANGED <<selectedFile, extractedData, pdfDocument, totalPages,
                   userData, dom, loads, uploads, download, now, heldRun>>

\* click on nextPage
NextPage ==
    /\ Budget
    /\ dom.pdfControlsVisible
    /\ ~dom.nextPageDisabled
    /\ IF currentPage < totalPages
       THEN /\ Len(renders) < MaxRenders
            /\ currentPage' = currentPage + 1
            /\ renders' = Append(renders, [doc |-> pdfDocument,
                                           page |-> currentPage + 1])
       ELSE UNCHANGED <<currentPage, renders>>
    /\ UNCHANGED <<selectedFile, extractedData, pdfDocument, totalPages,
                   userData, dom, loads, uploads, download, now, heldRun>>

\* parsePDF up to `await fetch('/upload', ...)`: click on parseBtn, with
\* Date.now() returning t.
ParsePDF(t) ==
    /\ Budget
    /\ t >= now
    /\ ~dom.parseBtnDisabled
    /\ IF selectedFile = NoFile
       THEN /\ dom' = Notify(dom, "error", "Please select a 26AS PDF file first.")
            /\ UNCHANGED <<extractedData, uploads, now>>
       ELSE /\ Len(uploads) < MaxUploads
            /\ now' = t
            /\ extractedData' =
                 [extractedData EXCEPT !.processingStats.startTime = t]
            /\ dom' = [dom EXCEPT !.parseBtnDisabled = TRUE,
                                  !.downloadBtnDisabled = TRUE,
                                  !.progressBarVisible = TRUE]
            /\ uploads' = Append(uploads, [file |-> selectedFile, startTime |-> t])
    /\ UNCHANGED <<selectedFile, pdfDocument, currentPage, totalPages,
                   userData, loads, renders, download, heldRun>>

\* StoreData, adding the new transactions to the held ones.
StoreDataAppend(data, result, t) ==
    [data EXCEPT !.assessee = result.assessee_info,
                 !.transactions = data.transactions \o result.transactions,
                 !.processingStats.endTime = t]

\* "Store extracted data" (lines 416-418): Date.now() returns t.
StoreData(data, result, t) ==
    [data EXCEPT !.assessee = result.assessee_info,
                 !.transactions = result.transactions,
                 !.processingStats.endTime = t]

\* ShowResult, reporting a result without transactions as an error.
ShowResultEmptyIsError(d, stored) ==
    LET n == Len(stored.transactions)
        d2 == updateExcelPreview([d EXCEPT !.summaryTransactionCount = n], stored)
        d4 == [updateAssesseeInfo(d2, stored) EXCEPT
                  !.counterVisible = TRUE,
                  !.counterValue = n,
                  !.downloadBtnDisabled = FALSE,
                  !.activeTab = "excel"]
    IN  IF n = 0 THEN Notify(d4, "error", "Error parsing PDF")
        ELSE Notify(d4, "success", "Successfully parsed transactions")

\* The rest of the success branch of parsePDF (lines 421-436): updateSummary,
\* updateExcelPreview, updateAssesseeInfo, counter, download button, tab,
\* notification.
ShowResult(d, stored) ==
    LET n == Len(stored.transactions)
        d1 == [d EXCEPT !.summaryTransactionCount = n]
        d2 == updateExcelPreview(d1, stored)
        d3 == updateAssesseeInfo(d2, stored)
        d4 == [d3 EXCEPT !.counterVisible = TRUE,
                         !.counterValue = n,
                         !.downloadBtnDisabled = FALSE,
                         !.activeTab = "excel"]
    IN  Notify(d4, "success", "Successfully parsed transactions")

\* a finally block that leaves the parse button as it is
ParseFinallyKeepsButton(d) ==
    [d EXCEPT !.progressBarVisible = FALSE]

\* The finally block of parsePDF (lines 445-451).
ParseFinally(d) ==
    [d EXCEPT !.parseBtnDisabled = FALSE, !.progressBarVisible = FALSE]

\* parsePDF after `await fetch('/upload', ...)`: the request of uploads[i]
\* completes with result; Date.now() returns t.
ParseDone(i, result, t) ==
    /\ Budget
    /\ t >= now
    /\ i \in 1..Len(uploads)
    /\ IF result.kind = "success"
       THEN /\ now' = t
            /\ heldRun' = uploads[i]
            /\ extractedData' = StoreData(extractedData, result, t)
            /\ dom' = ParseFinally(ShowResult(dom, extractedData'))
       ELSE /\ t = now
            /\ dom' = ParseFinally(Notify(dom, "error", "Error parsing PDF"))
            /\ UNCHANGED <<extractedData, heldRun, now>>
    /\ uploads' = Remove(uploads, i)
    /\ UNCHANGED <<selectedFile, pdfDocument, currentPage, totalPages,
                   userData, loads, renders, download>>

\* showAllTransactions(): click on the Show All button of the preview
ShowAllTransactions ==
    /\ Budget
    /\ dom.showAllOffered
    /\ IF Len(extractedData.transactions) = 0
       THEN UNCHANGED dom
       ELSE dom' = [dom EXCEPT
                !.excelPlaceholder = FALSE,
                !.excelRows = [i \in 1..Len(extractedData.transactions) |->
                                  RenderRow(extractedData.transactions[i])],
                !.showAllOffered = FALSE,
                !.excelRowInfo = [all |-> TRUE,
                                  rows |-> Len(extractedData.transactions)]]
    /\ UNCHANGED <<selectedFile, extractedData, pdfDocument, currentPage,
                   totalPages, userData, loads, renders, uploads, download,
                   now, heldRun>>

\* showDownloadModal(): click on downloadBtn
ShowDownloadModal ==
    /\ Budget
    /\ ~dom.downloadBtnDisabled
    /\ IF Len(extractedData.transactions) = 0
       THEN dom' = Notify(dom, "error", "No data to download. Please parse a 26AS PDF first.")
       ELSE dom' = [dom EXCEPT
                !.modalPageCount =
                    IF extractedData.processingStats.pageCount = 0 THEN 1
                    ELSE extractedData.processingStats.pageCount,
                !.modalTransactionCount = Len(extractedData.transactions),
                !.modalTime = extractedData.processingStats.endTime
                              - extractedData.processingStats.startTime,
                !.reportModalVisible = TRUE]
    /\ UNCHANGED <<selectedFile, extractedData, pdfDocument, currentPage,
                   totalPages, userData, loads, renders, uploads, download,
                   now, heldRun>>

\* click on closeModal or closeModalBtn
CloseModal ==
    /\ Budget
    /\ dom.reportModalVisible
    /\ dom' = [dom EXCEPT !.reportModalVisible = FALSE]
    /\ UNCHANGED <<selectedFile, extractedData, pdfDocument, currentPage,
                   totalPages, userData, loads, renders, uploads, download,
                   now, heldRun>>

\* RequestBody, sending the rows of the default preview only.
RequestBodyPreview(data) ==
    [sent |-> TRUE,
     keys |-> {"transactions"} \cup
              (IF data.assessee.tag = "undefined" THEN {} ELSE {"assessee_info"}),
     assessee_info |-> data.assessee,
     transactions |-> SubSeq(data.transactions, 1,
                             Min(PreviewLimit, Len(data.transactions)))]

\* JSON.stringify(downloadData): a property whose value is undefined is left
\* out of the body.
RequestBody(data) ==
    [sent |-> TRUE,
     keys |-> {"transactions"} \cup
              (IF data.assessee.tag = "undefined" THEN {} ELSE {"assessee_info"}),
     assessee_info |-> data.assessee,
     transactions |-> data.transactions]

\* downloadExcelFile up to `await fetch('/download_excel', ...)`: click on
\* confirmDownload in the modal.
DownloadExcelFile ==
    /\ Budget
    /\ dom.reportModalVisible
    /\ ~dom.confirmDownloadDisabled
    /\ IF Len(extractedData.transactions) = 0
       THEN /\ dom' = Notify(dom, "error", "No data to download.")
            /\ UNCHANGED download
       ELSE /\ userData.totalFilesProcessed < MaxDownloads
            /\ dom' = [dom EXCEPT !.confirmDownloadDisabled = TRUE]
            /\ download' = RequestBody(extractedData)
    /\ UNCHANGED <<selectedFile, extractedData, pdfDocument, currentPage,
                   totalPages, userData, loads, renders, uploads, now,
                   heldRun>>

\* downloadExcelFile after the fetch: the server produced the file (ok) or
\* the request failed.
DownloadDone(ok) ==
    /\ Budget
    /\ download.sent
    /\ IF ok
       THEN /\ userData' =
                 [totalFilesProcessed |-> userData.totalFilesProcessed + 1,
                  todayFilesProcessed |-> userData.todayFilesProcessed + 1]
            /\ dom' = [Notify(dom, "success", "Excel file downloaded successfully!")
                          EXCEPT !.reportModalVisible = FALSE,
                                 !.confirmDownloadDisabled = FALSE]
       ELSE /\ dom' = [Notify(dom, "error", "Error generating Excel file")
                          EXCEPT !.confirmDownloadDisabled = FALSE]
            /\ UNCHANGED userData
    /\ download' = NoDownload
    /\ UNCHANGED <<selectedFile, extractedData, pdfDocument, currentPage,
                   totalPages, loads, renders, uploads, now, heldRun>>

\* resetTool(): click on resetBtn
ResetTool ==
    /\ Budget
    /\ selectedFile' = NoFile
    /\ pdfDocument' = NoFile
    /\ currentPage' = 1
    /\ totalPages' = 0
    /\ extractedData' = EmptyData
    /\ heldRun' = NoRun
    /\ dom' = Notify(
         [updateExcelPreview(dom, EmptyData) EXCEPT
              !.summaryFileCount = 0,
              !.summaryTransactionCount = 0,
              !.parseBtnDisabled = TRUE,
              !.downloadBtnDisabled = TRUE,
              !.progressBarVisible = FALSE,
              !.counterVisible = FALSE,
              !.counterValue = 0,
              !.assesseeVisible = FALSE,
              !.pdfControlsVisible = FALSE,
              !.pdfInfo = NoFile,
              !.activeTab = "pdf"],
         "success", "Tool has been reset successfully.")
    /\ UNCHANGED <<userData, loads, renders, uploads, download, now>>

Next ==
    \/ \E file \in Files : HandleFile(file)
    \/ \E i \in 1..MaxLoads, opens \in BOOLEAN : LoadDone(i, opens)
    \/ \E i \in 1..MaxRenders : RenderDone(i)
    \/ PrevPage
    \/ NextPage
    \/ \E t \in 1..MaxTime : ParsePDF(t)
    \/ \E i \in 1..MaxUploads, result \in Responses, t \in 1..MaxTime :
          ParseDone(i, result, t)
    \/ ShowAllTransactions
    \/ ShowDownloadModal
    \/ CloseModal
    \/ DownloadExcelFile
    \/ \E ok \in BOOLEAN : DownloadDone(ok)
    \/ ResetTool

Spec == Init /\ [][Next]_vars

\* ---- page navigation
\* The three-page file a.pdf has been selected, pdf.js has opened it and its
\* first page is rendered; events are counted from here.
ViewedFile == [stem |-> "a", ext |-> "pdf", pages |-> 3]
InitNav ==
    /\ selectedFile = ViewedFile
    /\ extractedData = [EmptyData EXCEPT !.processingStats.pageCount = 3]
    /\ pdfDocument = ViewedFile
    /\ currentPage = 1
    /\ totalPages = 3
    /\ userData = [totalFilesProcessed |-> 0, todayFilesProcessed |-> 0]
    /\ dom = [InitDom EXCEPT !.summaryFileCount = 1,
                             !.parseBtnDisabled = FALSE,
                             !.pdfInfo = ViewedFile,
                             !.pdfControlsVisible = TRUE,
                             !.pageInfo = [page |-> 1, total |-> 3],
                             !.prevPageDisabled = TRUE,
                             !.nextPageDisabled = FALSE]
    /\ loads = <<>>
    /\ renders = <<>>
    /\ uploads = <<>>
    /\ download = NoDownload
    /\ now = 1
    /\ heldRun = NoRun
    /\ events = 0
    /\ ServiceIdle

\* selections, loads, renders, navigation clicks and resets
NextNav ==
    \/ \E file \in Files : HandleFile(file)
    \/ \E i \in 1..MaxLoads, opens \in BOOLEAN : LoadDone(i, opens)
    \/ \E i \in 1..MaxRenders : RenderDone(i)
    \/ PrevPage
    \/ NextPage
    \/ ResetTool

\* a session of the PDF preview
SpecNav == InitNav /\ [][NextNav]_vars

\* ------------------------------------------ the extraction service (app.py)
\* A cell of a table row is its text, glyph by glyph; <<>> is the empty cell.
Digits == <<"0", "1", "2", "3", "4", "5", "6", "7", "8", "9">>
IsDigit(g) == \E i \in DOMAIN Digits : Digits[i] = g
DigitValue(g) == (CHOOSE i \in DOMAIN Digits : Digits[i] = g) - 1
IsDigits(cell) == cell # <<>> /\ \A i \in DOMAIN cell : IsDigit(cell[i])

RECURSIVE DigitsValue(_)
DigitsValue(cell) ==
    IF cell = <<>> THEN 0
    ELSE 10 * DigitsValue(SubSeq(cell, 1, Len(cell) - 1))
         + DigitValue(cell[Len(cell)])

\* the decimal numeral of a natural number
RECURSIVE Numeral(_)
Numeral(n) ==
    IF n < 10 THEN <<Digits[n + 1]>>
    ELSE Numeral(n \div 10) \o <<Digits[(n % 10) + 1]>>

GroupingSeparators == {","}
CurrencySymbols == {"Rs"}
Strip(cell, glyphs) == SelectSeq(cell, LAMBDA g : g \notin glyphs)

\* Numeric parsing of the normalizer: strip grouping separators, strip
\* currency symbols, parse to decimal (amounts are in whole units here).
ParseDecimal(cell) ==
    LET t == Strip(Strip(cell, GroupingSeparators), CurrencySymbols)
        neg == t # <<>> /\ t[1] = "-"
        body == IF neg THEN Tail(t) ELSE t
    IN  IF IsDigits(body)
        THEN [ok |-> TRUE,
              value |-> IF neg THEN 0 - DigitsValue(body) ELSE DigitsValue(body)]
        ELSE [ok |-> FALSE, value |-> 0]

\* a parseable sr_no is a numeral
ParseSerial(cell) ==
    IF IsDigits(cell) THEN [ok |-> TRUE, value |-> DigitsValue(cell)]
    ELSE [ok |-> FALSE, value |-> 0]

\* The columns of a row after the page's header positions are resolved;
\* sr_no is the first cell.
AmountColumns == {"amount_paid", "tax_deducted", "tds_deposited", "net_amount"}
TextColumns == {"deductor_name"}
Columns == {"sr_no"} \cup TextColumns \cup AmountColumns
RawRow(sr, name, paid, tax, tds, net) ==
    [sr_no |-> sr, deductor_name |-> name, amount_paid |-> paid,
     tax_deducted |-> tax, tds_deposited |-> tds, net_amount |-> net]

HeaderLabels ==
    {<<"Sr. No.">>, <<"Name of Deductor">>, <<"TAN of Deductor">>,
     <<"Amount Paid">>, <<"Tax Deducted">>, <<"TDS Deposited">>}
AggregateLabels == {<<"Total">>, <<"Grand Total">>}

\* the conditions of the row classification policy
IsHeader(row) == \E c \in Columns : row[c] \in HeaderLabels
IsSummary(row) == row.sr_no \in AggregateLabels
IsContinuation(row) ==
    /\ ~ParseSerial(row.sr_no).ok
    /\ \E c \in AmountColumns : ParseDecimal(row[c]).ok
IsData(row) ==
    /\ ParseSerial(row.sr_no).ok \/ row.sr_no = <<>>
    /\ \E c \in Columns : row[c] # <<>>

\* the conditions, evaluated with the continuation test first
ClassifyContinuationFirst(row) ==
    IF IsContinuation(row) THEN "continuation"
    ELSE IF IsHeader(row) THEN "header"
    ELSE IF IsSummary(row) THEN "summary"
    ELSE IF IsData(row) THEN "data"
    ELSE "noise"

\* the conditions, evaluated in the order of the policy
Classify(row) ==
    IF IsHeader(row) THEN "header"
    ELSE IF IsSummary(row) THEN "summary"
    ELSE IF IsContinuation(row) THEN "continuation"
    ELSE IF IsData(row) THEN "data"
    ELSE "noise"

\* a non-empty cell of a continuation row is appended to the cell above it
MergeCell(prev, cont) ==
    IF cont = <<>> THEN prev
    ELSE IF prev = <<>> THEN cont
    ELSE prev \o <<" ">> \o cont

\* the continuation row starts a row of its own
MergeRowsApart(rows, cells) ==
    Append(rows, [page |-> rows[Len(rows)].page, cells |-> cells])

\* the continuation row is merged into the last raw row
MergeRows(rows, cells) ==
    LET prev == rows[Len(rows)]
    IN  [rows EXCEPT ![Len(rows)] =
            [page |-> prev.page,
             cells |-> [c \in Columns |->
                          IF c = "sr_no" THEN prev.cells[c]
                          ELSE MergeCell(prev.cells[c], cells[c])]]]

\* Table parser, one row of the ordered stream: tagged is [page, cells],
\* st is [rows, summary_rows].
ParseRow(st, tagged) ==
    LET class == Classify(tagged.cells)
    IN  IF class = "summary"
        THEN [st EXCEPT !.summary_rows = @ + 1]
        ELSE IF class = "continuation"
        THEN IF st.rows = <<>> THEN st
             ELSE [st EXCEPT !.rows = MergeRows(st.rows, tagged.cells)]
        ELSE IF class = "data"
        THEN [st EXCEPT !.rows = Append(@, tagged)]
        ELSE st

RECURSIVE TableParser(_)
TableParser(stream) ==
    IF stream = <<>> THEN [rows |-> <<>>, summary_rows |-> 0]
    ELSE ParseRow(TableParser(SubSeq(stream, 1, Len(stream) - 1)),
                  stream[Len(stream)])

\* the source's sr_no, or the last seen plus 2
AssignSerialSkipping(cell, last) ==
    IF ParseSerial(cell).ok THEN ParseSerial(cell).value ELSE last + 2

\* Sequence numbering of the normalizer: the source's sr_no, or the one
\* after the last seen.
AssignSerial(cell, last) ==
    IF ParseSerial(cell).ok THEN ParseSerial(cell).value ELSE last + 1

\* an amount cell as a decimal, 0.00 when it does not parse
Amount(cell) == IF ParseDecimal(cell).ok THEN ParseDecimal(cell).value ELSE 0

\* Normalizer, one raw row: st is [records, last, skipped_cells].
NormalizeRow(st, raw) ==
    LET sr == AssignSerial(raw.cells.sr_no, st.last)
        failed == {c \in AmountColumns : ~ParseDecimal(raw.cells[c]).ok}
    IN  [records |-> Append(st.records,
                        [sr_no |-> sr,
                         deductor_name |-> raw.cells.deductor_name,
                         amount_paid |-> Amount(raw.cells.amount_paid),
                         tax_deducted |-> Amount(raw.cells.tax_deducted),
                         tds_deposited |-> Amount(raw.cells.tds_deposited),
                         net_amount |-> Amount(raw.cells.net_amount),
                         page_number |-> raw.page]),
         last |-> sr,
         skipped_cells |-> st.skipped_cells + Cardinality(failed)]

RECURSIVE Normalizer(_)
Normalizer(rows) ==
    IF rows = <<>> THEN [records |-> <<>>, last |-> 0, skipped_cells |-> 0]
    ELSE NormalizeRow(Normalizer(SubSeq(rows, 1, Len(rows) - 1)),
                      rows[Len(rows)])

\* the page results in the order the workers delivered them
ResultsAsCompleted(results) == results

\* the page results in page order
ResultsInPageOrder(results) ==
    LET n == Len(results)
        rank(r) == Cardinality({q \in 1..n : results[q].page <= r.page})
    IN  [i \in 1..n |-> CHOOSE r \in {results[q] : q \in 1..n} : rank(r) = i]

\* the rows of one page result, tagged with the page number
TaggedRows(r) == [k \in 1..Len(r.rows) |-> [page |-> r.page, cells |-> r.rows[k]]]

RECURSIVE Concat(_)
Concat(results) ==
    IF results = <<>> THEN <<>>
    ELSE TaggedRows(Head(results)) \o Concat(Tail(results))

\* the globally ordered row stream the final pass consumes
RowStream(results) == Concat(ResultsInPageOrder(results))

Failed(kind) == [NoResult EXCEPT !.kind = kind]

\* a run with a failed page fails
AssembleStrict(d, results, warned) ==
    IF results = <<>> \/ warned > 0 THEN Failed("NoExtractablePages")
    ELSE LET parsed == TableParser(RowStream(results))
             normal == Normalizer(parsed.rows)
         IN  [kind |-> "success",
              transactions |-> normal.records,
              stats |-> [page_count |-> Len(d.pages),
                         page_warnings |-> warned,
                         summary_rows |-> parsed.summary_rows,
                         skipped_cells |-> normal.skipped_cells]]

\* the orchestrator's last steps: table parser across all extracted pages,
\* normalizer on every raw row, ExtractionResult
AssembleResult(d, results, warned) ==
    IF results = <<>> THEN Failed("NoExtractablePages")
    ELSE LET parsed == TableParser(RowStream(results))
             normal == Normalizer(parsed.rows)
         IN  [kind |-> "success",
              transactions |-> normal.records,
              stats |-> [page_count |-> Len(d.pages),
                         page_warnings |-> warned,
                         summary_rows |-> parsed.summary_rows,
                         skipped_cells |-> normal.skipped_cells]]

\* extract(bytes) is called: the document is opened, the page workers start
Extract ==
    /\ phase = "idle"
    /\ IF doc.valid
       THEN /\ phase' = "pages"
            /\ pending' = DOMAIN doc.pages
            /\ UNCHANGED outcome
       ELSE /\ phase' = "done"
            /\ outcome' = Failed("InvalidDocument")
            /\ UNCHANGED pending
    /\ UNCHANGED <<doc, extracted, warnings, client>>

\* the extraction of page p completes: its rows, or a warning
PageDone(p) ==
    /\ phase = "pages"
    /\ p \in pending
    /\ pending' = pending \ {p}
    /\ IF doc.pages[p].ok
       THEN /\ extracted' = Append(extracted, [page |-> p, rows |-> doc.pages[p].rows])
            /\ UNCHANGED warnings
       ELSE /\ warnings' = warnings + 1
            /\ UNCHANGED extracted
    /\ UNCHANGED <<doc, phase, outcome, client>>

\* all pages are done: the final ordered pass
Assemble ==
    /\ phase = "pages"
    /\ pending = {}
    /\ phase' = "done"
    /\ outcome' = AssembleResult(doc, extracted, warnings)
    /\ UNCHANGED <<doc, pending, extracted, warnings, client>>

NextExtract ==
    \/ Extract
    \/ \E p \in 1..MaxPages : PageDone(p)
    \/ Assemble

\* ---- documents
HeaderRow ==
    RawRow(<<"Sr. No.">>, <<"Name of Deductor">>, <<"Amount Paid">>,
           <<"Tax Deducted">>, <<"TDS Deposited">>, <<>>)
TotalRow ==
    RawRow(<<"Total">>, <<>>, <<"3", "0", "0">>, <<"3", "0">>, <<"3", "0">>,
           <<"2", "7", "0">>)
DataRow(n) ==
    RawRow(Numeral(n), <<"A">>, <<"Rs", "1", ",", "0", "0", "0">>,
           <<"1", "0", "0">>, <<"1", "0", "0">>, <<"9", "0", "0">>)
\* a reversal entry
NegativeRow ==
    RawRow(<<"3">>, <<"B">>, <<"-", "5">>, <<"0">>, <<"0">>, <<"-", "5">>)
\* a new entry the source left unnumbered, its amounts not readable
UnnumberedRow == RawRow(<<>>, <<"C">>, <<"n/a">>, <<>>, <<>>, <<>>)
\* the second visual line of an entry
WrappedRow == RawRow(<<>>, <<"Ltd">>, <<>>, <<"7">>, <<>>, <<>>)
BlankRow == RawRow(<<>>, <<>>, <<>>, <<>>, <<>>, <<>>)
FooterRow == RawRow(<<"Page">>, <<>>, <<>>, <<>>, <<>>, <<>>)

RowKinds ==
    {HeaderRow, TotalRow, DataRow(1), NegativeRow, UnnumberedRow, WrappedRow,
     BlankRow, FooterRow}

\* the sequences over S of length at most n
SeqsUpTo(S, n) == UNION {[1..k -> S] : k \in 0..n}

Page(rows) == [ok |-> TRUE, rows |-> rows]
CorruptPage == [ok |-> FALSE, rows |-> <<>>]

\* Documents for the table parser: an identity page and the rows of a
\* table, broken over pages 2 and 3 after row k.
Break(s, k) ==
    [valid |-> TRUE,
     pages |-> <<Page(<<>>), Page(SubSeq(s, 1, k)), Page(SubSeq(s, k + 1, Len(s)))>>]

\* The 3-page document of the scenario: 20 rows on page 2, 5 on page 3, the
\* first of which continues the last row of page 2.
ScenarioDoc ==
    [valid |-> TRUE,
     pages |-> <<Page(<<>>),
                 Page([n \in 1..20 |-> DataRow(n)]),
                 Page(<<WrappedRow>> \o [n \in 1..4 |-> DataRow(20 + n)])>>]

\* Documents for the orchestrator: bytes that do not open, or up to
\* MaxPages pages, each corrupt or with one of a few contents.
PageContents ==
    {CorruptPage, Page(<<>>), Page(<<DataRow(1)>>),
     Page(<<WrappedRow, NegativeRow>>), Page(<<UnnumberedRow, TotalRow>>)}
PagedDocs ==
    {NoDoc} \cup {[valid |-> TRUE, pages |-> ps] : ps \in SeqsUpTo(PageContents, MaxPages)}

RunInit ==
    /\ phase = "idle"
    /\ pending = {}
    /\ extracted = <<>>
    /\ warnings = 0
    /\ outcome = NoResult

\* a table of at most MaxRows rows, or the scenario document
InitParse ==
    /\ ClientInit
    /\ RunInit
    /\ \/ \E s \in SeqsUpTo(RowKinds, MaxRows) : \E k \in 0..Len(s) : doc = Break(s, k)
       \/ doc = ScenarioDoc
InitExtract == ClientInit /\ RunInit /\ doc \in PagedDocs

\* one extraction run over a paged table
SpecParse == InitParse /\ [][NextExtract]_vars
\* one extraction run over a document with corrupt pages
SpecExtract == InitExtract /\ [][NextExtract]_vars

\* ------------------------------------------------------------------ claims
SuccessResponses == {r \in Responses : r.kind = "success"}
Stats == extractedData.processingStats

\* C1: a completed parsePDF run shows an error notification exactly when the
\* extraction failed (fetch rejected, status not OK, success false) and a
\* success notification exactly when the response had success true, an empty
\* transactions list included.
C1_NotificationMatchesOutcome ==
    [][Len(uploads') < Len(uploads) =>
          \A i \in 1..MaxUploads, r \in Responses, t \in 1..MaxTime :
             ParseDone(i, r, t) =>
                 /\ (dom'.notification.type = "success") <=> (r.kind = "success")
                 /\ (dom'.notification.type = "error") <=> (r.kind \in FailureKinds)]_vars

\* C1 witness: a successful extraction without transactions is held and the
\* success notification is up.
C1_Witness ==
    /\ heldRun # NoRun
    /\ extractedData.transactions = <<>>
    /\ dom.counterVisible
    /\ dom.notification.type = "success"

\* C2 (as claimed): with a successful, empty result held, the Download click
\* opens the modal without an error, and Confirm sends the request.
C2_EmptyResultExportable ==
    [][/\ (ShowDownloadModal /\ heldRun # NoRun
              /\ extractedData.transactions = <<>>)
          => (dom'.reportModalVisible /\ dom'.notification.type # "error")
       /\ (DownloadExcelFile /\ heldRun # NoRun
              /\ extractedData.transactions = <<>>)
          => download'.sent]_vars

\* C3 (as claimed): while the result of a run for the selected file is held,
\* processingStats.pageCount is the page count of that file.
C3_PageCountIsDocumentPages ==
    (heldRun # NoRun /\ heldRun.file = selectedFile)
        => Stats.pageCount = selectedFile.pages

\* C4: the transactions held change only by being emptied or by being
\* replaced with exactly the list of a successful response, and a
\* /download_excel request carries exactly the held list of a stored response.
C4_SentListIsReceivedList ==
    [][/\ (extractedData'.transactions # extractedData.transactions)
          => \/ extractedData'.transactions = <<>>
             \/ \E i \in 1..MaxUploads, r \in SuccessResponses, t \in 1..MaxTime :
                   /\ ParseDone(i, r, t)
                   /\ extractedData'.transactions = r.transactions
       /\ (download'.sent /\ ~download.sent)
          => /\ heldRun # NoRun
             /\ download'.transactions = extractedData.transactions]_vars

\* C4 witness: a request in flight carries a list longer than the preview,
\* after Show All was used.
C4_Witness ==
    /\ download.sent
    /\ Len(download.transactions) > PreviewLimit
    /\ dom.excelRowInfo.all

\* the five keys of AssesseeInfo
AssesseeKeys == {"name", "pan", "financial_year", "assessment_year", "address"}
HasAllKeys(a) == a.tag = "object" /\ AssesseeKeys \subseteq DOMAIN a.props

\* C5 (as claimed): the assessee record held, and every assessee_info in a
\* /download_excel request, has all five keys.
C5_AssesseeHasAllKeys ==
    /\ HasAllKeys(extractedData.assessee)
    /\ download.sent => /\ "assessee_info" \in download.keys
                        /\ HasAllKeys(download.assessee_info)

\* C6 (as claimed): the result held was produced by a run started for the
\* file that is selected now.
C6_HeldResultIsOfSelectedFile ==
    (heldRun # NoRun /\ selectedFile # NoFile) => heldRun.file = selectedFile

\* C7 (as claimed): right after handleFile accepts a PDF, extractedData is
\* empty and preview rows, transaction counts and assessee panel show nothing
\* of the previous document.
C7_NothingSurvivesSelection ==
    [][\A file \in Files :
          (HandleFile(file) /\ IsPdfName(file)) =>
              /\ extractedData' = EmptyData
              /\ dom'.excelRows = <<>>
              /\ dom'.summaryTransactionCount = 0
              /\ dom'.counterValue = 0
              /\ ~dom'.assesseeVisible]_vars

\* C8 (as claimed): when the modal reports an elapsed time, startTime is the
\* start of the run whose result is held and 0 < startTime <= endTime.
C8_TimesBracketOneRun ==
    [][(ShowDownloadModal /\ Len(extractedData.transactions) > 0) =>
          /\ Stats.startTime = heldRun.startTime
          /\ 0 < Stats.startTime
          /\ Stats.startTime <= Stats.endTime]_vars

\* a cell that is absent, null or the empty string
Missing(v) == v.tag \in {"undefined", "null"} \/ (v.tag = "string" /\ v.text = "")
\* a cell that is a string parseFloat cannot read
Unparseable(v) == v.tag = "string" /\ ~v.numeric
AmountCells == {"amount_paid", "tax_deducted", "tds_deposited", "net_amount"}
Range(s) == {s[i] : i \in DOMAIN s}

\* C9 (as claimed): in the rows rendered for the held transactions a missing
\* status shows "F", a missing rate 0.00, a missing or unparseable amount
\* 0.00, and no amount or rate shows as a non-number.
C9_PreviewDefaults ==
    /\ \A tx \in Range(extractedData.transactions) :
          LET row == RenderRow(tx) IN
          /\ Missing(tx.status) => row.status = "F"
          /\ Missing(tx.rate) => row.rate = Number(0)
          /\ \A c \in AmountCells :
                (Missing(tx[c]) \/ Unparseable(tx[c])) => row[c] = Number(0)
    /\ \A i \in DOMAIN dom.excelRows :
          /\ ~dom.excelRows[i].rate.nan
          /\ \A c \in AmountCells : ~dom.excelRows[i][c].nan

\* C10: storing a successful response makes the held transactions and
\* assessee exactly those of the response, whatever was held before.
C10_StoreReplaces ==
    [][Len(uploads') < Len(uploads) =>
          \A i \in 1..MaxUploads, r \in SuccessResponses, t \in 1..MaxTime :
             ParseDone(i, r, t) =>
                 /\ extractedData'.transactions = r.transactions
                 /\ extractedData'.assessee = r.assessee_info]_vars

\* C10 witness: a result held for the selected file has replaced an earlier
\* one, whose transaction count the modal still shows.
C10_Witness ==
    /\ heldRun # NoRun
    /\ heldRun.file = selectedFile
    /\ Len(extractedData.transactions) > 0
    /\ dom.modalTransactionCount > Len(extractedData.transactions)

\* C17 (as claimed): at most one /upload request is in flight, and while one
\* is in flight the parse button is disabled.
C17_OneUploadInFlight ==
    /\ Len(uploads) <= 1
    /\ uploads # <<>> => dom.parseBtnDisabled

\* C18 (as claimed): while no file is selected (at start and from resetTool
\* until the next selection) nothing is held or shown: no document, no pages,
\* no transactions, no page controls, parse and download buttons disabled.
C18_ResetStateIsStable ==
    selectedFile = NoFile =>
        /\ pdfDocument = NoFile
        /\ totalPages = 0
        /\ extractedData.transactions = <<>>
        /\ ~dom.pdfControlsVisible
        /\ dom.parseBtnDisabled
        /\ dom.downloadBtnDisabled

\* C19 (as claimed): the download button is enabled only when the result of
\* a parse succeeded since the last selection or reset is held and no parse
\* is in flight.
C19_DownloadNeedsFreshResult ==
    ~dom.downloadBtnDisabled => (heldRun # NoRun /\ uploads = <<>>)

\* what the panel shows for one field of the assessee
Shown(a, key) == IF Prop(a, key) # "" THEN Prop(a, key) ELSE "Not Available"

\* C20 (as claimed): after a successful parse the assessee panel, if visible,
\* shows the name, PAN and financial year of the assessee just stored.
C20_PanelShowsStoredIdentity ==
    [][Len(uploads') < Len(uploads) =>
          \A i \in 1..MaxUploads, r \in SuccessResponses, t \in 1..MaxTime :
             (ParseDone(i, r, t) /\ dom'.assesseeVisible) =>
                 /\ dom'.assesseeName = Shown(extractedData'.assessee, "name")
                 /\ dom'.assesseePAN = Shown(extractedData'.assessee, "pan")
                 /\ dom'.assesseeFY \in
                       {Shown(extractedData'.assessee, "financialYear"),
                        Shown(extractedData'.assessee, "financial_year")}]_vars

\* ---- the extraction service
\* the results of the extractable pages 1..n of d, page after page
RECURSIVE SequentialResults(_, _)
SequentialResults(d, n) ==
    IF n = 0 THEN <<>>
    ELSE IF d.pages[n].ok
    THEN Append(SequentialResults(d, n - 1), [page |-> n, rows |-> d.pages[n].rows])
    ELSE SequentialResults(d, n - 1)
\* the rows of the document in (page, row) order
SourceStream == Concat(SequentialResults(doc, Len(doc.pages)))
DataRows == SelectSeq(SourceStream, LAMBDA t : Classify(t.cells) = "data")
Succeeded == phase = "done" /\ outcome.kind = "success"
IsPrefix(p, s) == Len(p) <= Len(s) /\ SubSeq(s, 1, Len(p)) = p
\* the number of data rows among the first k rows of the stream
DataUpTo(k) == Cardinality({i \in 1..k : Classify(SourceStream[i].cells) = "data"})

\* C11: a data row followed immediately by a continuation row, on the same
\* page or as the first row of the next page, gives one record, on the data
\* row's page, with the continuation's non-empty cells merged into it (text
\* appended, an amount of the only continuation filling an empty cell); the
\* scenario document gives 24 records, 20 of page 2 and 4 of page 3.
C11_ContinuationMerges ==
    Succeeded =>
        LET s == SourceStream
            recs == outcome.transactions
        IN  /\ Len(recs) = Len(DataRows)
            /\ \A k \in 1..Len(s) - 1 :
                  (Classify(s[k].cells) = "data"
                        /\ Classify(s[k + 1].cells) = "continuation") =>
                      LET rec == recs[DataUpTo(k)]
                          alone == \A m \in k + 2..Len(s) :
                                      Classify(s[m].cells) = "continuation" =>
                                          \E n \in k + 2..m - 1 :
                                              Classify(s[n].cells) = "data"
                      IN  /\ rec.page_number = s[k].page
                          /\ IsPrefix(MergeCell(s[k].cells.deductor_name,
                                                s[k + 1].cells.deductor_name),
                                      rec.deductor_name)
                          /\ \A c \in AmountColumns :
                                (alone /\ s[k].cells[c] = <<>>) =>
                                    rec[c] = Amount(s[k + 1].cells[c])
            /\ doc = ScenarioDoc =>
                  /\ Len(recs) = 24
                  /\ \A j \in 1..24 : recs[j].page_number = IF j <= 20 THEN 2 ELSE 3

\* C11 witness: the scenario document is extracted and the last row of page
\* 2 carries the wrapped name found at the top of page 3.
C11_Witness ==
    /\ Succeeded
    /\ doc = ScenarioDoc
    /\ outcome.transactions[20].deductor_name = <<"A", " ", "Ltd">>
    /\ outcome.transactions[20].page_number = 2

\* the rows of the stream that are neither header, summary nor noise
KeptRows ==
    SelectSeq(SourceStream,
              LAMBDA t : /\ ~IsHeader(t.cells)
                         /\ ~IsSummary(t.cells)
                         /\ IsContinuation(t.cells) \/ IsData(t.cells))

\* C12: every row gets the first class of the order header, summary,
\* continuation, data, noise whose condition it meets; the records are as
\* many as the data rows, and are those of the stream without its header,
\* summary and noise rows; every summary row is counted in the stats of a
\* successful result.
C12_FirstMatchClassification ==
    Succeeded =>
        LET s == SourceStream
        IN  /\ \A k \in 1..Len(s) :
                  LET row == s[k].cells
                      class == Classify(row)
                  IN  /\ (class = "header") <=> IsHeader(row)
                      /\ (class = "summary") <=> (~IsHeader(row) /\ IsSummary(row))
                      /\ (class = "continuation") <=>
                            (~IsHeader(row) /\ ~IsSummary(row) /\ IsContinuation(row))
                      /\ (class = "data") <=>
                            (~IsHeader(row) /\ ~IsSummary(row)
                                /\ ~IsContinuation(row) /\ IsData(row))
                      /\ class \in {"header", "summary", "continuation", "data", "noise"}
            /\ Len(outcome.transactions) = Len(DataRows)
            /\ outcome.transactions = Normalizer(TableParser(KeptRows).rows).records
            /\ outcome.stats.summary_rows =
                  Cardinality({k \in 1..Len(s) :
                                  ~IsHeader(s[k].cells) /\ IsSummary(s[k].cells)})

\* C12 witness: a table with a header row, a data row and a total row gave
\* one record and one counted summary row.
C12_Witness ==
    /\ Succeeded
    /\ Len(SourceStream) = 3
    /\ IsHeader(SourceStream[1].cells)
    /\ IsSummary(SourceStream[3].cells)
    /\ Len(outcome.transactions) = 1
    /\ outcome.stats.summary_rows = 1

CorruptPages == {p \in DOMAIN doc.pages : ~doc.pages[p].ok}

\* C13: extract fails only with InvalidDocument, exactly when the bytes do
\* not open, and NoExtractablePages, exactly when no page could be
\* extracted; otherwise it succeeds, counts the failed pages as warnings and
\* holds, for every extracted page, one record per data row of that page.
C13_TerminalFailures ==
    phase = "done" =>
        /\ outcome.kind \in {"InvalidDocument", "NoExtractablePages", "success"}
        /\ (outcome.kind = "InvalidDocument") <=> ~doc.valid
        /\ (outcome.kind = "NoExtractablePages") <=>
              (doc.valid /\ CorruptPages = DOMAIN doc.pages)
        /\ outcome.kind = "success" =>
              /\ outcome.stats.page_warnings = Cardinality(CorruptPages)
              /\ outcome.stats.page_count = Len(doc.pages)
              /\ \A p \in DOMAIN doc.pages \ CorruptPages :
                    Cardinality({j \in DOMAIN outcome.transactions :
                                    outcome.transactions[j].page_number = p})
                    = Cardinality({k \in DOMAIN doc.pages[p].rows :
                                    Classify(doc.pages[p].rows[k]) = "data"})

\* C13 witness: a run with a corrupt page succeeded with a warning, with
\* records of another page and with cells that did not parse.
C13_Witness ==
    /\ Succeeded
    /\ outcome.stats.page_warnings > 0
    /\ outcome.stats.skipped_cells > 0
    /\ Len(outcome.transactions) > 0

\* C14: whatever the order in which the page extractions completed, the
\* result is that of the run which extracts page after page.
C14_CompletionOrderIrrelevant ==
    (phase = "done" /\ doc.valid) =>
        outcome = AssembleResult(doc, SequentialResults(doc, Len(doc.pages)), warnings)

\* C14 witness: a later page completed before an earlier one, and the row
\* at the top of the later page was merged into the last row of the earlier.
C14_Witness ==
    /\ Succeeded
    /\ Len(extracted) >= 2
    /\ extracted[1].page > extracted[2].page
    /\ \E j \in DOMAIN outcome.transactions :
          /\ outcome.transactions[j].deductor_name = <<"A", " ", "Ltd">>
          /\ outcome.transactions[j].page_number < extracted[1].page

\* the data rows of the stream whose sr_no the source left out
Unnumbered(j) == DataRows[j].cells.sr_no = <<>>

\* C15 (as claimed): every record has a positive sr_no; a number assigned to
\* an unnumbered data row is the one after the last seen and neither repeats
\* nor falls below the sr_no of an earlier record; continuation rows take no
\* number.
C15_AssignedNeverRepeatsOrFalls ==
    Succeeded =>
        LET recs == outcome.transactions
        IN  /\ Len(recs) = Len(DataRows)
            /\ \A j \in DOMAIN recs :
                  /\ recs[j].sr_no > 0
                  /\ Unnumbered(j) =>
                        /\ recs[j].sr_no = (IF j = 1 THEN 0 ELSE recs[j - 1].sr_no) + 1
                        /\ \A i \in 1..j - 1 : recs[i].sr_no < recs[j].sr_no

\* C15 (amended): every record has a positive sr_no, the source's where the
\* source gave one; a number assigned to an unnumbered data row is one more
\* than the sr_no of the record before it (1 for the first record);
\* continuation rows take no number.
C15_AssignedFollowsLastSeen ==
    Succeeded =>
        LET recs == outcome.transactions
        IN  /\ Len(recs) = Len(DataRows)
            /\ \A j \in DOMAIN recs :
                  /\ recs[j].sr_no > 0
                  /\ ~Unnumbered(j) =>
                        recs[j].sr_no = DigitsValue(DataRows[j].cells.sr_no)
                  /\ Unnumbered(j) =>
                        recs[j].sr_no = (IF j = 1 THEN 0 ELSE recs[j - 1].sr_no) + 1

\* C15 witness: an unnumbered row after row 3 and its continuation was
\* numbered 4.
C15_Witness ==
    /\ Succeeded
    /\ Len(SourceStream) = 3
    /\ Classify(SourceStream[2].cells) = "continuation"
    /\ Len(outcome.transactions) = 2
    /\ outcome.transactions[1].sr_no = 3
    /\ Unnumbered(2)
    /\ outcome.transactions[2].sr_no = 4

PreviewSettled ==
    /\ pdfDocument # NoFile
    /\ dom.pdfControlsVisible
    /\ loads = <<>>
    /\ renders = <<>>

\* C21 (as claimed): once all pending loads and renders have completed, the
\* page label shows currentPage of totalPages, Previous is disabled exactly
\* when currentPage <= 1 and Next exactly when currentPage >= totalPages.
C21_PreviewMatchesCurrentPage ==
    PreviewSettled =>
        /\ dom.pageInfo = [page |-> currentPage, total |-> totalPages]
        /\ dom.prevPageDisabled <=> (currentPage <= 1)
        /\ dom.nextPageDisabled <=> (currentPage >= totalPages)

\* currentPage is a page of the loaded document, and every renderPDFPage
\* call in flight was made with a document and one of its pages
PageInRange ==
    /\ currentPage >= 1
    /\ pdfDocument # NoFile =>
          /\ totalPages = pdfDocument.pages
          /\ currentPage <= totalPages
    /\ \A i \in DOMAIN renders :
          /\ renders[i].doc # NoFile
          /\ renders[i].page \in 1..renders[i].doc.pages

\* C22: in every state currentPage >= 1 and, with a document loaded,
\* currentPage <= totalPages = the document's page count; renderPDFPage is
\* only called with a document and a page of it; Previous at page 1 and
\* Next at the last page change nothing.
C22_CurrentPageInRange ==
    /\ []PageInRange
    /\ [][((PrevPage /\ currentPage <= 1) \/ (NextPage /\ currentPage >= totalPages))
              => UNCHANGED <<selectedFile, extractedData, pdfDocument,
                             currentPage, totalPages, dom, loads, renders,
                             uploads, download>>]_vars

\* C22 witness: at the last page of the loaded document with the Next
\* button enabled.
C22_Witness ==
    /\ pdfDocument # NoFile
    /\ dom.pdfControlsVisible
    /\ currentPage = totalPages
    /\ ~dom.nextPageDisabled

\* the first k transactions held, as rows
RowsOf(k) == [i \in 1..k |-> RenderRow(extractedData.transactions[i])]

\* C23: storing a result with n transactions renders its first min(50, n)
\* transactions in order, one row each, reports that many rows and offers
\* Show All exactly when n > 50, with the placeholder and no data row
\* exactly when n = 0; Show All, on the result held, renders all n
\* transactions in order.
C23_PreviewShowsFirstRows ==
    [][/\ Len(uploads') < Len(uploads) =>
             \A i \in 1..Len(uploads), r \in SuccessResponses, t \in {now'} :
                ParseDone(i, r, t) =>
                    LET n == Len(r.transactions) IN
                    /\ dom'.excelRows = RowsOf(Min(PreviewLimit, n))'
                    /\ dom'.excelRowInfo = [all |-> FALSE, rows |-> Min(PreviewLimit, n)]
                    /\ dom'.showAllOffered <=> (n > PreviewLimit)
                    /\ dom'.excelPlaceholder <=> (n = 0)
       /\ (ShowAllTransactions /\ Len(extractedData.transactions) > 0) =>
             /\ dom'.excelRows = RowsOf(Len(extractedData.transactions))
             /\ dom'.excelRowInfo = [all |-> TRUE,
                                     rows |-> Len(extractedData.transactions)]
             /\ ~dom'.excelPlaceholder]_vars

\* C23 witness: all rows of a result longer than the preview are shown
\* after Show All.
C23_Witness ==
    /\ heldRun # NoRun
    /\ dom.excelRowInfo.all
    /\ Len(extractedData.transactions) > PreviewLimit
    /\ Len(dom.excelRows) = Len(extractedData.transactions)

\* C24: the completion of a failed parse (fetch rejected, status not OK,
\* success false) stores nothing: extractedData is as it was, the error is
\* reported, the parse button is enabled and the progress bar hidden.
C24_FailedParseStoresNothing ==
    [][Len(uploads') < Len(uploads) =>
          \A i \in 1..MaxUploads, r \in Responses \ SuccessResponses, t \in 1..MaxTime :
             ParseDone(i, r, t) =>
                 /\ extractedData' = extractedData
                 /\ dom'.notification.type = "error"
                 /\ ~dom'.parseBtnDisabled
                 /\ ~dom'.progressBarVisible
                 /\ dom'.excelRows = dom.excelRows]_vars

\* C24 witness: a parse failed while an earlier result was held; the result
\* is still held and shown.
C24_Witness ==
    /\ heldRun # NoRun
    /\ Len(extractedData.transactions) > 0
    /\ uploads = <<>>
    /\ dom.notification = [type |-> "error", message |-> "Error parsing PDF"]
    /\ ~dom.parseBtnDisabled
    /\ dom.downloadBtnDisabled

\* C25: handleFile on a file whose name does not end in .pdf, in any case,
\* shows an error and changes nothing else: no variable, no button, no load
\* and no upload.
C25_NonPdfChangesNothing ==
    [][\A file \in {f \in Files : toLowerCase(f.ext) # "pdf"} :
          HandleFile(file) =>
              /\ dom' = Notify(dom, "error", "Please select a PDF file.")
              /\ UNCHANGED <<selectedFile, extractedData, pdfDocument,
                             currentPage, totalPages, loads, renders, uploads,
                             download, userData>>]_vars

\* C25 witness: a file that is not a PDF was refused while a.pdf stays
\* selected with its result held.
C25_Witness ==
    /\ selectedFile # NoFile
    /\ heldRun # NoRun
    /\ dom.notification = [type |-> "error", message |-> "Please select a PDF file."]
====
